---------------------------- MODULE Spec2Model ----------------------------
(***************************************************************************)
(* Model of src/main.py: the per-project classification of domain names    *)
(* (generate_regex), the assembly of the regular expression               *)
(* (_generate_regex), get_postfix, and the driver that collects one Rule   *)
(* per project inside one Session.                                         *)
(*                                                                         *)
(* A Python str is a sequence of one-character strings, so "a.c" is        *)
(* <<"a", ".", "c">>.  A Python dict is a sequence of [key, val] records   *)
(* in insertion order, which is the order .keys() iterates in.             *)
(***************************************************************************)
EXTENDS Integers, Sequences, FiniteSets, TLC

VARIABLES
    pc,             \* position of the program
    domains,        \* table domains: set of rows [project_id, name]
    rules_table,    \* table rules: set of committed rows
    pending_ids,    \* project ids the loop of line 100 has still to visit
    project_id,     \* loop variable of line 100
    names,          \* generate_regex: names (line 65)
    postfix_count,  \* generate_regex: postfix_count
    exceptions,     \* generate_regex: exceptions
    garbage,        \* _generate_regex: garbage
    regexp,         \* the string _generate_regex returned
    rules,          \* driver: rules (line 99)
    session_new,    \* objects handed to the session by add_all
    error,          \* exception in flight: "none", "InvalidName", "KeyError"
    domain,         \* get_postfix: its argument, when called on its own
    postfix         \* get_postfix: its return value, when called on its own

vars == <<pc, domains, rules_table, pending_ids, project_id, names,
          postfix_count, exceptions, garbage, regexp, rules, session_new,
          error, domain, postfix>>

-----------------------------------------------------------------------------
(* Bounds of the model *)

\* most hand-picked names in the domains table
MaxHand == 3
\* longest argument of get_postfix called on its own
MaxLen == 4
\* most keys of a postfix_count handed to _generate_regex on its own
MaxKeys == 2

-----------------------------------------------------------------------------
(* Program constants *)

TOO_MANY == 50

DOMAIN_NAME_CHARS ==
    <<"[", "a", "-", "z", "A", "-", "Z", "0", "-", "9", "\\", "-", "]">>

-----------------------------------------------------------------------------
(* Strings and dicts *)

\* s[from:] with a 0-based index
SliceFrom(s, from) == SubSeq(s, from + 1, Len(s))

\* str.rfind(ch): the 0-based index of the last ch, -1 when there is none
FindLast(s, ch) ==
    IF \E i \in 1..Len(s) : s[i] = ch
    THEN (CHOOSE i \in 1..Len(s) :
              s[i] = ch /\ \A j \in (i+1)..Len(s) : s[j] # ch) - 1
    ELSE -1

\* str.find(ch): the 0-based index of the first ch, -1 when there is none
Find(s, ch) ==
    IF \E i \in 1..Len(s) : s[i] = ch
    THEN (CHOOSE i \in 1..Len(s) :
              s[i] = ch /\ \A j \in 1..(i-1) : s[j] # ch) - 1
    ELSE -1

\* str.replace(old, new) for a one-character old
RECURSIVE Replace(_, _, _)
Replace(s, old, new) ==
    IF s = <<>> THEN <<>>
    ELSE (IF Head(s) = old THEN new ELSE <<Head(s)>>)
         \o Replace(Tail(s), old, new)

\* sep.join(parts)
RECURSIVE Join(_, _)
Join(sep, parts) ==
    IF parts = <<>> THEN <<>>
    ELSE IF Len(parts) = 1 THEN parts[1]
    ELSE parts[1] \o sep \o Join(sep, Tail(parts))

\* k in d
DictHas(d, k) == \E i \in 1..Len(d) : d[i].key = k

\* d[k], for a key of d
DictGet(d, k) == d[CHOOSE i \in 1..Len(d) : d[i].key = k].val

\* d[k] = v: a new key goes last, an old key keeps its place
DictSet(d, k, v) ==
    IF DictHas(d, k)
    THEN [i \in 1..Len(d) |-> IF d[i].key = k THEN [key |-> k, val |-> v]
                               ELSE d[i]]
    ELSE Append(d, [key |-> k, val |-> v])

\* list(d.keys())
DictKeys(d) == [i \in 1..Len(d) |-> d[i].key]

\* the mapping a dict holds, its order forgotten
DictItems(d) == {<<d[i].key, d[i].val>> : i \in 1..Len(d)}

Range(s) == {s[i] : i \in 1..Len(s)}

-----------------------------------------------------------------------------
(* get_postfix, lines 88-92.  The result is [raised, value]. *)

Raised(e) == [raised |-> e, value |-> <<>>]
Returned(v) == [raised |-> "none", value |-> v]

\* get_postfix cutting at the last '.' instead of the first
get_postfix_last(d) ==
    LET pos == FindLast(d, ".")
    IN  IF pos = -1 THEN Raised("InvalidName")
        ELSE Returned(SliceFrom(d, pos + 1))

\* get_postfix without lines 90-91: with pos = -1 the slice is all of d
get_postfix_unchecked(d) == Returned(SliceFrom(d, Find(d, ".") + 1))

get_postfix(d) ==
    LET pos == Find(d, ".")
    IN  IF pos = -1 THEN Raised("InvalidName")
        ELSE Returned(SliceFrom(d, pos + 1))

-----------------------------------------------------------------------------
(* generate_regex, lines 66-78: the two passes over names *)

\* line 71: postfix_count[postfix] = 0
Seed(d, p) == DictSet(d, p, 0)

\* lines 70-71 seeding the name where its postfix is meant
SeedStepName(acc, name) ==
    IF acc.raised # "none" THEN acc
    ELSE LET r == get_postfix(name)
         IN  IF r.raised # "none" THEN Raised(r.raised)
             ELSE Returned(Seed(acc.value, name))

\* lines 70-71: one turn of the first loop; acc is what the turns before
\* left, an exception raised by one of them ends the loop
SeedStep(acc, name) ==
    IF acc.raised # "none" THEN acc
    ELSE LET r == get_postfix(name)
         IN  IF r.raised # "none" THEN Raised(r.raised)
             ELSE Returned(Seed(acc.value, r.value))

\* lines 69-71: the turns for ns[lo..hi] in order (halved, to keep the
\* evaluation shallow)
RECURSIVE Pass1(_, _, _, _)
Pass1(ns, lo, hi, acc) ==
    IF lo > hi THEN acc
    ELSE IF lo = hi THEN SeedStep(acc, ns[lo])
    ELSE LET mid == (lo + hi) \div 2
             left == Pass1(ns, lo, mid, acc)
         IN  IF left.raised # "none" THEN left
             ELSE Pass1(ns, mid + 1, hi, left)

\* line 74 taking a key for a real name only while its count is still 0
IsExceptionWhileZero(d, name) == DictHas(d, name) /\ DictGet(d, name) = 0

\* line 74: name in postfix_count
IsException(d, name) == DictHas(d, name)

\* line 78 counting two for one name
IncrementTwice(d, p) ==
    IF DictHas(d, p) THEN Returned(DictSet(d, p, DictGet(d, p) + 2))
    ELSE Raised("KeyError")

\* line 78: postfix_count[postfix] += 1, a KeyError for a missing key
Increment(d, p) ==
    IF DictHas(d, p) THEN Returned(DictSet(d, p, DictGet(d, p) + 1))
    ELSE Raised("KeyError")

\* lines 74-78 without the else: an exception is counted as well
CountStepNoElse(acc, name) ==
    IF acc.raised # "none" THEN acc
    ELSE LET r == get_postfix(name)
             exc == IF IsException(acc.value.postfix_count, name)
                    THEN Append(acc.value.exceptions, name)
                    ELSE acc.value.exceptions
         IN  IF r.raised # "none" THEN Raised(r.raised)
             ELSE LET inc == Increment(acc.value.postfix_count, r.value)
                  IN  IF inc.raised # "none" THEN Raised(inc.raised)
                      ELSE Returned([postfix_count |-> inc.value,
                                     exceptions |-> exc])

\* lines 74-78: one turn of the second loop; acc.value is
\* [postfix_count, exceptions]
CountStep(acc, name) ==
    IF acc.raised # "none" THEN acc
    ELSE IF IsException(acc.value.postfix_count, name)
    THEN Returned([postfix_count |-> acc.value.postfix_count,
                   exceptions |-> Append(acc.value.exceptions, name)])
    ELSE LET r == get_postfix(name)
         IN  IF r.raised # "none" THEN Raised(r.raised)
             ELSE LET inc == Increment(acc.value.postfix_count, r.value)
                  IN  IF inc.raised # "none" THEN Raised(inc.raised)
                      ELSE Returned([postfix_count |-> inc.value,
                                     exceptions |-> acc.value.exceptions])

\* lines 73-78: the turns for ns[lo..hi] in order
RECURSIVE Pass2(_, _, _, _)
Pass2(ns, lo, hi, acc) ==
    IF lo > hi THEN acc
    ELSE IF lo = hi THEN CountStep(acc, ns[lo])
    ELSE LET mid == (lo + hi) \div 2
             left == Pass2(ns, lo, mid, acc)
         IN  IF left.raised # "none" THEN left
             ELSE Pass2(ns, mid + 1, hi, left)

\* lines 66-78: postfix_count and exceptions of a list of names
Classify(ns) ==
    LET seeded == Pass1(ns, 1, Len(ns), Returned(<<>>))
    IN  IF seeded.raised # "none" THEN Raised(seeded.raised)
        ELSE Pass2(ns, 1, Len(ns),
                   Returned([postfix_count |-> seeded.value,
                             exceptions |-> <<>>]))

-----------------------------------------------------------------------------
(* _generate_regex, lines 43-60 *)

\* line 49 with >= for >
OverOrEqual(count) == count >= TOO_MANY

\* line 49: postfix_count[postfix] > TOO_MANY
Over(count) == count > TOO_MANY

\* lines 50-51: the value of replace is dropped, the f-string takes postfix
Fragment(p) ==
    LET escaped == Replace(p, ".", <<"\\", ".">>)
    IN  DOMAIN_NAME_CHARS \o <<"+", "\\", ".">> \o p

\* lines 44-51: garbage, one fragment per key over the threshold, in key order
RECURSIVE Garbage(_, _)
Garbage(d, i) ==
    IF i > Len(d) THEN <<>>
    ELSE (IF Over(d[i].val) THEN <<Fragment(d[i].key)>> ELSE <<>>)
         \o Garbage(d, i + 1)

\* lines 55-56: the value of replace is dropped, the f-string takes name
Lookahead(name) ==
    LET escaped == Replace(name, ".", <<"\\", ".">>)
    IN  <<"(", "?", "!", "^">> \o name \o <<"$", ")">>

\* lines 53-56: result
RECURSIVE Lookaheads(_, _)
Lookaheads(exc, i) ==
    IF i > Len(exc) THEN <<>>
    ELSE Lookahead(exc[i]) \o Lookaheads(exc, i + 1)

\* line 60: result + "|".join(garbage)
_generate_regex(d, exc) == Lookaheads(exc, 1) \o Join(<<"|">>, Garbage(d, 1))

-----------------------------------------------------------------------------
(* What the returned string means as a pattern of Python's re, for the     *)
(* syntax lines 26, 51, 56 and 60 emit: alternation, (?!...), ^, $, a      *)
(* character class with +, an escaped character, '.', a literal.           *)

\* the characters names are made of, in ASCII order
Ascii ==
    <<"-", ".", "0", "1", "2", "3", "4", "5", "6", "7", "8", "9",
      "A", "B", "C", "D", "E", "F", "G", "H", "I", "J", "K", "L", "M",
      "N", "O", "P", "Q", "R", "S", "T", "U", "V", "W", "X", "Y", "Z",
      "a", "b", "c", "d", "e", "f", "g", "h", "i", "j", "k", "l", "m",
      "n", "o", "p", "q", "r", "s", "t", "u", "v", "w", "x", "y", "z">>

Ord(ch) == CHOOSE i \in 1..Len(Ascii) : Ascii[i] = ch

\* whether the class with body c, read from c[i] on, holds ch
RECURSIVE InClass(_, _, _)
InClass(c, i, ch) ==
    IF i > Len(c) THEN FALSE
    ELSE IF c[i] = "\\" THEN ch = c[i + 1] \/ InClass(c, i + 2, ch)
    ELSE IF i + 2 <= Len(c) /\ c[i + 1] = "-"
    THEN (Ord(c[i]) <= Ord(ch) /\ Ord(ch) <= Ord(c[i + 2]))
         \/ InClass(c, i + 3, ch)
    ELSE ch = c[i] \/ InClass(c, i + 1, ch)

\* the first index after i where p holds ch unescaped
FirstAfter(p, i, ch) ==
    CHOOSE k \in (i + 1)..Len(p) :
        /\ p[k] = ch /\ p[k - 1] # "\\"
        /\ \A m \in (i + 1)..(k - 1) : ~(p[m] = ch /\ p[m - 1] # "\\")

\* whether p, read from p[i] on, matches s from s[j] on; with full, only
\* up to the end of s
RECURSIVE Match(_, _, _, _, _)
Match(p, i, s, j, full) ==
    IF i > Len(p) THEN ~full \/ j = Len(s) + 1
    ELSE IF p[i] = "^" THEN j = 1 /\ Match(p, i + 1, s, j, full)
    ELSE IF p[i] = "$" THEN j = Len(s) + 1 /\ Match(p, i + 1, s, j, full)
    ELSE IF p[i] = "(" THEN
        \* (?!body): body must not match here
        LET close == FirstAfter(p, i, ")")
        IN  /\ ~Match(SubSeq(p, i + 3, close - 1), 1, s, j, FALSE)
            /\ Match(p, close + 1, s, j, full)
    ELSE IF p[i] = "[" THEN
        LET close == FirstAfter(p, i, "]")
            cls == SubSeq(p, i + 1, close - 1)
        IN  IF close < Len(p) /\ p[close + 1] = "+"
            THEN \E n \in 1..(Len(s) - j + 1) :
                    /\ \A m \in j..(j + n - 1) : InClass(cls, 1, s[m])
                    /\ Match(p, close + 2, s, j + n, full)
            ELSE /\ j <= Len(s)
                 /\ InClass(cls, 1, s[j])
                 /\ Match(p, close + 1, s, j + 1, full)
    ELSE IF p[i] = "\\" THEN
        j <= Len(s) /\ s[j] = p[i + 1] /\ Match(p, i + 2, s, j + 1, full)
    ELSE IF p[i] = "." THEN
        j <= Len(s) /\ Match(p, i + 1, s, j + 1, full)
    ELSE j <= Len(s) /\ s[j] = p[i] /\ Match(p, i + 1, s, j + 1, full)

\* the '|' of p outside every group
Bars(p) ==
    {i \in 1..Len(p) :
        /\ p[i] = "|"
        /\ Cardinality({k \in 1..i : p[k] = "("})
             = Cardinality({k \in 1..i : p[k] = ")"})}

\* the alternatives of p
Alternatives(p) ==
    {SubSeq(p, st, CHOOSE e \in st - 1..Len(p) :
                       /\ e + 1 \in Bars(p) \cup {Len(p) + 1}
                       /\ \A b \in Bars(p) : ~(st <= b /\ b <= e)) :
        st \in {1} \cup {b + 1 : b \in Bars(p)}}

\* re.fullmatch(p, s) is not None
FullMatch(p, s) == \E alt \in Alternatives(p) : Match(alt, 1, s, 1, TRUE)

-----------------------------------------------------------------------------
(* The domains table the run starts from *)

ProjectIds == {1, 2}

\* hand-picked names; "a" has no '.', "a." ends in its only '.'
Hand ==
    << <<"a", ".", "c">>,
       <<"b", ".", "a", ".", "c">>,
       <<"c", ".", "b", ".", "a", ".", "c">>,
       <<"b", ".", "x">>,
       <<"a", ".">>,
       <<"a">> >>

Digits == <<"0", "1", "2", "3", "4", "5", "6", "7", "8", "9">>

\* the i-th generated label, two digits
Label(i) == <<Digits[(i \div 10) + 1], Digits[(i % 10) + 1]>>

\* the postfixes that get a family of generated names <label>.<postfix>
FamilyA == <<"a", ".", "c">>
FamilyX == <<"x">>

\* the first k names of a family, in label order
Family(p, k) == [i \in 1..k |-> Label(i) \o <<".">> \o p]

Rows(ns, id) == {[project_id |-> id, name |-> n] : n \in ns}

\* hand-picked names spread over the projects
SmallTables ==
    { {[project_id |-> f[n], name |-> n] : n \in DOMAIN f} :
        f \in UNION {[S -> ProjectIds] :
                        S \in {T \in SUBSET Range(Hand) :
                                  Cardinality(T) <= MaxHand}} }

\* one project with the names a.c, b.a.c, c.b.a.c, each there or not, and
\* families at the threshold
BulkTables ==
    { Rows(S, 1) \cup Rows(Range(Family(FamilyA, ka)), 1)
                 \cup Rows(Range(Family(FamilyX, kx)), 1) :
        S \in SUBSET {Hand[1], Hand[2], Hand[3]},
        ka \in {0, TOO_MANY, TOO_MANY + 1},
        kx \in {0, TOO_MANY + 1} }

Tables == SmallTables \cup BulkTables

\* all orders of a finite set
Perms(S) ==
    {p \in [1..Cardinality(S) -> S] : \A i, j \in DOMAIN p : p[i] = p[j] => i = j}

\* the names of a family that are in ns, in label order
FamilyIn(p, ns) == SelectSeq(Family(p, 99), LAMBDA n : n \in ns)

\* the hand-picked names that are in ns, in the order of Hand
Canonical(ns) ==
    SelectSeq(Hand, LAMBDA n : n \in ns)
        \o FamilyIn(FamilyA, ns) \o FamilyIn(FamilyX, ns)

\* The orders a query without ORDER BY may return the names ns in: the
\* hand-picked names in every order, each family in label order, and the
\* three blocks in every order.
Orderings(ns) ==
    LET blocksOf(h) == <<h, FamilyIn(FamilyA, ns), FamilyIn(FamilyX, ns)>>
    IN  { blocksOf(h)[a[1]] \o blocksOf(h)[a[2]] \o blocksOf(h)[a[3]] :
            h \in Perms(ns \cap Range(Hand)), a \in Perms({1, 2, 3}) }

-----------------------------------------------------------------------------
(* The driver, lines 98-104 *)

NoLocals ==
    /\ names' = <<>>
    /\ postfix_count' = <<>>
    /\ exceptions' = <<>>
    /\ garbage' = <<>>
    /\ regexp' = <<>>

Init ==
    /\ pc = "start"
    /\ domains \in Tables
    /\ rules_table = {}
    /\ pending_ids = <<>>
    /\ project_id = 0
    /\ names = <<>>
    /\ postfix_count = <<>>
    /\ exceptions = <<>>
    /\ garbage = <<>>
    /\ regexp = <<>>
    /\ rules = <<>>
    /\ session_new = <<>>
    /\ error = "none"
    /\ domain = <<>>
    /\ postfix = <<>>

\* line 100: session.query(Domain.project_id).distinct().all()
QueryProjects ==
    /\ pc = "start"
    /\ pending_ids' \in Perms({r.project_id : r \in domains})
    /\ pc' = "loop"
    /\ UNCHANGED <<domains, rules_table, project_id, names, postfix_count,
                   exceptions, garbage, regexp, rules, session_new, error,
                   domain, postfix>>

\* line 100, one more project, and line 65: its names
QueryNames ==
    /\ pc = "loop"
    /\ pending_ids # <<>>
    /\ project_id' = Head(pending_ids)
    /\ pending_ids' = Tail(pending_ids)
    /\ names' \in Orderings({r.name : r \in {q \in domains :
                                q.project_id = Head(pending_ids)}})
    /\ postfix_count' = <<>>
    /\ exceptions' = <<>>
    /\ pc' = "pass1"
    /\ UNCHANGED <<domains, rules_table, garbage, regexp, rules, session_new,
                   error, domain, postfix>>

\* lines 69-71
SeedPass ==
    /\ pc = "pass1"
    /\ LET r == Pass1(names, 1, Len(names), Returned(postfix_count))
       IN  IF r.raised # "none"
           THEN /\ error' = r.raised
                /\ pc' = "raised"
                /\ NoLocals
           ELSE /\ postfix_count' = r.value
                /\ pc' = "pass2"
                /\ UNCHANGED <<names, exceptions, garbage, regexp, error>>
    /\ UNCHANGED <<domains, rules_table, pending_ids, project_id, rules,
                   session_new, domain, postfix>>

\* lines 73-78
CountPass ==
    /\ pc = "pass2"
    /\ LET r == Pass2(names, 1, Len(names),
                    Returned([postfix_count |-> postfix_count,
                              exceptions |-> exceptions]))
       IN  IF r.raised # "none"
           THEN /\ error' = r.raised
                /\ pc' = "raised"
                /\ NoLocals
           ELSE /\ postfix_count' = r.value.postfix_count
                /\ exceptions' = r.value.exceptions
                /\ pc' = "classified"
                /\ UNCHANGED <<names, garbage, regexp, error>>
    /\ UNCHANGED <<domains, rules_table, pending_ids, project_id, rules,
                   session_new, domain, postfix>>

\* line 80: the call of _generate_regex
Assemble ==
    /\ pc = "classified"
    /\ garbage' = Garbage(postfix_count, 1)
    /\ regexp' = _generate_regex(postfix_count, exceptions)
    /\ pc' = "assembled"
    /\ UNCHANGED <<domains, rules_table, pending_ids, project_id, names,
                   postfix_count, exceptions, rules, session_new, error,
                   domain, postfix>>

\* lines 101-103 with add_all indented into the loop
AppendRuleAndAdd ==
    /\ pc = "assembled"
    /\ rules' = Append(rules, [regexp |-> regexp, project_id |-> project_id])
    /\ session_new' = session_new \o rules'
    /\ NoLocals
    /\ pc' = "loop"
    /\ UNCHANGED <<domains, rules_table, pending_ids, project_id,
                   error, domain, postfix>>

\* lines 101-102: generate_regex returns and its Rule joins rules
AppendRule ==
    /\ pc = "assembled"
    /\ rules' = Append(rules, [regexp |-> regexp, project_id |-> project_id])
    /\ NoLocals
    /\ pc' = "loop"
    /\ UNCHANGED <<domains, rules_table, pending_ids, project_id,
                   session_new, error, domain, postfix>>

\* line 103: session.add_all(rules)
AddAll ==
    /\ pc = "loop"
    /\ pending_ids = <<>>
    /\ session_new' = session_new \o rules
    /\ pc' = "added"
    /\ UNCHANGED <<domains, rules_table, pending_ids, project_id, names,
                   postfix_count, exceptions, garbage, regexp, rules,
                   error, domain, postfix>>

\* line 98, leaving the with block: the session is closed without a commit
\* (line 104 is a comment), after line 103 or with the exception in flight
CloseSession ==
    /\ pc \in {"added", "raised"}
    /\ session_new' = <<>>
    /\ pc' = IF pc = "added" THEN "done" ELSE "aborted"
    /\ UNCHANGED <<domains, rules_table, pending_ids, project_id, names,
                   postfix_count, exceptions, garbage, regexp, rules,
                   error, domain, postfix>>

Next ==
    \/ QueryProjects
    \/ QueryNames
    \/ SeedPass
    \/ CountPass
    \/ Assemble
    \/ AppendRule
    \/ AddAll
    \/ CloseSession

Spec == Init /\ [][Next]_vars

-----------------------------------------------------------------------------
(* get_postfix called on its own, on every string up to MaxLen *)

PostfixAlphabet == {"a", "b", "."}

InitPostfix ==
    /\ pc = "get_postfix"
    /\ domain \in UNION {[1..n -> PostfixAlphabet] : n \in 0..MaxLen}
    /\ domains = {}
    /\ rules_table = {}
    /\ pending_ids = <<>>
    /\ project_id = 0
    /\ names = <<>>
    /\ postfix_count = <<>>
    /\ exceptions = <<>>
    /\ garbage = <<>>
    /\ regexp = <<>>
    /\ rules = <<>>
    /\ session_new = <<>>
    /\ error = "none"
    /\ postfix = <<>>

\* lines 88-92
CallGetPostfix ==
    /\ pc = "get_postfix"
    /\ error' = get_postfix(domain).raised
    /\ postfix' = get_postfix(domain).value
    /\ pc' = "get_postfix_over"
    /\ UNCHANGED <<domains, rules_table, pending_ids, project_id, names,
                   postfix_count, exceptions, garbage, regexp, rules,
                   session_new, domain>>

NextPostfix == CallGetPostfix

SpecPostfix == InitPostfix /\ [][NextPostfix]_vars

-----------------------------------------------------------------------------
(* _generate_regex called on its own, on counts round the threshold *)

A_COM == <<"a", ".", "c", "o", "m">>
B_COM == <<"b", ".", "c", "o", "m">>
COM == <<"c", "o", "m">>
X_A_COM == <<"x", ".", "a", ".", "c", "o", "m">>

\* dicts of up to MaxKeys postfixes with counts round the threshold
CountMaps ==
    UNION { {d \in [1..n -> [key : {A_COM, B_COM, COM},
                             val : {0, 10, TOO_MANY, TOO_MANY + 1}]] :
                \A i, j \in 1..n : d[i].key = d[j].key => i = j} :
            n \in 0..MaxKeys }

ExceptionLists == {<<>>, <<X_A_COM>>, <<A_COM>>, <<A_COM, X_A_COM>>}

InitRegex ==
    /\ pc = "_generate_regex"
    /\ postfix_count \in CountMaps
    /\ exceptions \in ExceptionLists
    /\ domains = {}
    /\ rules_table = {}
    /\ pending_ids = <<>>
    /\ project_id = 0
    /\ names = <<>>
    /\ garbage = <<>>
    /\ regexp = <<>>
    /\ rules = <<>>
    /\ session_new = <<>>
    /\ error = "none"
    /\ domain = <<>>
    /\ postfix = <<>>

\* lines 43-60
CallGenerateRegex ==
    /\ pc = "_generate_regex"
    /\ garbage' = Garbage(postfix_count, 1)
    /\ regexp' = _generate_regex(postfix_count, exceptions)
    /\ pc' = "_generate_regex_over"
    /\ UNCHANGED <<domains, rules_table, pending_ids, project_id, names,
                   postfix_count, exceptions, rules, session_new, error,
                   domain, postfix>>

NextRegex == CallGenerateRegex

SpecRegex == InitRegex /\ [][NextRegex]_vars

-----------------------------------------------------------------------------
(* Properties *)

\* p is the part of m after its first '.'
IsPostfixOf(p, m) ==
    \E k \in 1..Len(m) :
        /\ m[k] = "."
        /\ \A j \in 1..(k - 1) : m[j] # "."
        /\ p = SubSeq(m, k + 1, Len(m))

Classified == pc \in {"classified", "assembled"}

NameSet == Range(names)
ExceptionSet == Range(exceptions)
KeySet == Range(DictKeys(postfix_count))

\* the names of the list that count for postfix p: those with postfix p that
\* are not exceptions
Counted(p) == {n \in NameSet : IsPostfixOf(p, n) /\ n \notin ExceptionSet}

RECURSIVE SumVals(_, _)
SumVals(d, i) == IF i > Len(d) THEN 0 ELSE d[i].val + SumVals(d, i + 1)

\* C1: after the two passes a name is in exceptions if and only if it is the
\* postfix of another name of the same list.
C1_ExceptionIffPostfixOfOther ==
    Classified =>
        /\ ExceptionSet \subseteq NameSet
        /\ \A n \in NameSet :
              n \in ExceptionSet
                  <=> \E m \in NameSet : m # n /\ IsPostfixOf(n, m)

\* a list with an exception and a name that is none
C1_Witness ==
    /\ pc = "classified"
    /\ ExceptionSet # {}
    /\ NameSet \ ExceptionSet # {}

\* C2 as stated: a postfix that is also a full name of the list has count 0
\* when classification ends, and never yields a garbage fragment.
C2_FrozenAtZero ==
    Classified =>
        \A p \in KeySet \cap NameSet :
            /\ DictGet(postfix_count, p) = 0
            /\ pc = "assembled" => Fragment(p) \notin Range(garbage)

\* C2 amended: a postfix p that is also a full name of the list is itself an
\* exception and counted nowhere, but its own count is not frozen: it is the
\* number of non-exception names <label>.p, and p yields a garbage fragment
\* exactly when that number exceeds TOO_MANY.
C2_RealPostfixCountsItsNonExceptions ==
    Classified =>
        \A p \in KeySet \cap NameSet :
            /\ p \in ExceptionSet
            /\ DictGet(postfix_count, p) = Cardinality(Counted(p))
            /\ pc = "assembled" =>
                  (Fragment(p) \in Range(garbage)
                      <=> Cardinality(Counted(p)) > TOO_MANY)

\* a postfix that is a full name of the list and is over the threshold
C2_Witness ==
    /\ pc = "assembled"
    /\ \E p \in KeySet \cap NameSet :
          /\ DictGet(postfix_count, p) > TOO_MANY
          /\ Fragment(p) \in Range(garbage)

\* C3: no name of the exceptions list is matched, as a whole string, by the
\* returned regex.
C3_NoExceptionMatched ==
    pc = "assembled" => \A e \in ExceptionSet : ~FullMatch(regexp, e)

\* C4: every '.' of the returned regex is escaped: counts {a.com: 51,
\* b.com: 10} give [a-zA-Z0-9\-]+\.a\.com, and with exceptions [x.a.com]
\* (?!^x\.a\.com$)[a-zA-Z0-9\-]+\.a\.com.
C4_DotsEscaped ==
    pc = "_generate_regex_over" =>
        /\ \A i \in 1..Len(regexp) :
              regexp[i] = "." => i > 1 /\ regexp[i - 1] = "\\"
        /\ postfix_count = <<[key |-> A_COM, val |-> 51],
                             [key |-> B_COM, val |-> 10]>> =>
              /\ exceptions = <<>> =>
                    regexp = DOMAIN_NAME_CHARS
                               \o <<"+", "\\", ".", "a", "\\", ".",
                                    "c", "o", "m">>
              /\ exceptions = <<X_A_COM>> =>
                    regexp = <<"(", "?", "!", "^", "x", "\\", ".", "a",
                               "\\", ".", "c", "o", "m", "$", ")">>
                               \o DOMAIN_NAME_CHARS
                               \o <<"+", "\\", ".", "a", "\\", ".",
                                    "c", "o", "m">>

\* C5: garbage has one fragment per postfix whose count is strictly greater
\* than 50 and none for any other; with no count over 50 the alternation is
\* empty, and with no exceptions either the regex is the empty string.
C5_FragmentIffOverThreshold ==
    pc = "_generate_regex_over" =>
        LET over == SelectSeq(postfix_count, LAMBDA e : e.val > 50)
        IN  /\ Len(garbage) = Len(over)
            /\ \A k \in 1..Len(over) :
                  /\ Len(garbage[k]) > Len(over[k].key)
                  /\ SubSeq(garbage[k],
                            Len(garbage[k]) - Len(over[k].key) + 1,
                            Len(garbage[k])) = over[k].key
            /\ over = <<>> =>
                  /\ \A i \in 1..Len(regexp) : regexp[i] \notin {"[", "|"}
                  /\ exceptions = <<>> => regexp = <<>>

\* a count of exactly 50 beside a count of 51
C5_Witness ==
    /\ pc = "_generate_regex_over"
    /\ \E i, j \in 1..Len(postfix_count) :
          postfix_count[i].val = 50 /\ postfix_count[j].val = 51
    /\ Len(garbage) = 1

\* C6: when add_all has run, the session holds exactly one Rule for each
\* project_id of the domains table and none for any other.
C6_OneRulePerProject ==
    pc = "added" =>
        LET held(id) == {i \in 1..Len(session_new) :
                            session_new[i].project_id = id}
            present == {r.project_id : r \in domains}
        IN  /\ \A i \in 1..Len(session_new) :
                  session_new[i].project_id \in present
            /\ \A id \in ProjectIds \cup present :
                  Cardinality(held(id)) = IF id \in present THEN 1 ELSE 0

\* two projects, each with its Rule
C6_Witness ==
    /\ pc = "added"
    /\ Len(session_new) = 2
    /\ session_new[1].project_id # session_new[2].project_id

HasInvalidName == \E r \in domains : "." \notin Range(r.name)

\* C7: with a name without '.' in the table the run never gets to add_all:
\* it goes on until InvalidName is raised, nothing catches it, and the run
\* ends aborted with no Rule in the session and none committed.
C7_InvalidNameAbortsAll ==
    /\ HasInvalidName =>
          /\ pc \notin {"added", "done"}
          /\ session_new = <<>>
          /\ rules_table = {}
          /\ pc # "aborted" => ENABLED Next
    /\ pc \in {"raised", "aborted"} =>
          /\ error = "InvalidName"
          /\ HasInvalidName
          /\ session_new = <<>>
          /\ rules_table = {}

\* aborted after the regex of another project was generated
C7_Witness ==
    /\ pc = "aborted"
    /\ error = "InvalidName"
    /\ rules # <<>>

\* C8: get_postfix returns the part after the first '.', the empty string
\* when the only '.' is last, and raises InvalidName, returning nothing, when
\* there is no '.'.
C8_PostfixAfterFirstDot ==
    pc = "get_postfix_over" =>
        IF "." \in Range(domain)
        THEN /\ error = "none"
             /\ IsPostfixOf(postfix, domain)
             /\ Len(postfix) < Len(domain)
        ELSE error = "InvalidName" /\ postfix = <<>>

\* a name with two dots, cut at the first
C8_Witness ==
    /\ pc = "get_postfix_over"
    /\ error = "none"
    /\ "." \in Range(postfix)
    /\ domain[1] # "."

\* C9: when the second pass ends the keys are the postfixes of the names,
\* each count is the number of non-exception names with that postfix, counts
\* and exceptions add up to the number of names, and no increment misses
\* its key.
C9_CountsOfNonExceptions ==
    /\ error # "KeyError"
    /\ Classified =>
          /\ \A i, j \in 1..Len(postfix_count) :
                postfix_count[i].key = postfix_count[j].key => i = j
          /\ KeySet = {p \in KeySet : \E n \in NameSet : IsPostfixOf(p, n)}
          /\ \A n \in NameSet : \E p \in KeySet : IsPostfixOf(p, n)
          /\ \A p \in KeySet :
                DictGet(postfix_count, p)
                    = Cardinality({n \in NameSet :
                                      IsPostfixOf(p, n) /\ n \notin KeySet})
          /\ SumVals(postfix_count, 1) + Len(exceptions) = Len(names)

\* a list with an exception and a postfix counted over the threshold
C9_Witness ==
    /\ pc = "classified"
    /\ exceptions # <<>>
    /\ \E i \in 1..Len(postfix_count) : postfix_count[i].val > TOO_MANY

\* C10: the mapping and the set of exceptions are those of the same names in
\* any other order (here: the order of Canonical).
C10_OrderIndependent ==
    Classified =>
        LET other == Classify(Canonical(NameSet))
        IN  /\ other.raised = "none"
            /\ DictItems(postfix_count)
                 = DictItems(other.value.postfix_count)
            /\ ExceptionSet = Range(other.value.exceptions)

\* two orders of one list that give the keys and the exceptions in
\* different orders
C10_Witness ==
    /\ pc = "classified"
    /\ names # Canonical(NameSet)
    /\ DictKeys(postfix_count)
         # DictKeys(Classify(Canonical(NameSet)).value.postfix_count)
    /\ exceptions # Classify(Canonical(NameSet)).value.exceptions
    /\ \E i \in 1..Len(postfix_count) : postfix_count[i].val > 0

=============================================================================
